---------------------------- MODULE Spec2Model ----------------------------
(***************************************************************************)
(* Vertex-animation exporter (src/vextanim.py).                            *)
(*                                                                         *)
(* The operator OBJECT_OT_ProcessAnimMeshes.execute samples the selected   *)
(* mesh objects once per frame of the scene's frame range, derives an      *)
(* export mesh from the first snapshot, flattens offsets and normals into  *)
(* two RGBA arrays and bakes them into two images and two files.           *)
(*                                                                         *)
(* Numbers: coordinates are integers; a non-integer value is an exact      *)
(* rational <<numerator, denominator>> with a positive denominator.        *)
(* Names of host data-blocks are <<base, n>>: <<"offsets", 0>> is          *)
(* "offsets" and <<"offsets", 1>> is "offsets.001", the name the host      *)
(* gives a new data-block whose requested name is taken.                   *)
(***************************************************************************)
EXTENDS Integers, Sequences, FiniteSets, TLC

VARIABLES
    \* the scene the operator reads (not written by the add-on)
    selected_objects, frame_start, frame_end, frame_step,
    \* host state the add-on writes
    frame_current, data_meshes, data_objects, data_images, data_scenes,
    dirs, files,
    \* the operator's position, result and reports
    pc, result, reports,
    \* locals of execute and of the functions it calls
    objects, vertex_count, frame_count, meshes, frame_i, export_mesh_data,
    offsets, normals,
    \* history: every frame_set call and every file write of the current run,
    \* the meshes before the current run, completed runs, injected faults,
    \* allocated mesh ids
    frame_log, write_log, meshes_before, runs, faults, mesh_ids

vars == <<selected_objects, frame_start, frame_end, frame_step,
          frame_current, data_meshes, data_objects, data_images, data_scenes,
          dirs, files, pc, result, reports,
          objects, vertex_count, frame_count, meshes, frame_i,
          export_mesh_data, offsets, normals,
          frame_log, write_log, meshes_before, runs, faults, mesh_ids>>

scene_vars == <<selected_objects, frame_start, frame_end, frame_step>>

-----------------------------------------------------------------------------
(* Bounds of the model *)

\* most objects selected at once
MaxObjects == 2
\* largest frame_end of a sampled frame range
MaxFrameEnd == 3
\* most runs of the operator in one behaviour
MaxRuns == 2
\* most evaluator or I/O failures in one behaviour
MaxFaults == 1

(* Program constants *)

\* texture width ceiling of execute's vertex-count check
VertexLimit == 8192
\* texture height ceiling of execute's frame-count check
FrameLimit == 8192

-----------------------------------------------------------------------------
(* Arithmetic helpers *)

Range(s) == {s[k] : k \in DOMAIN s}

RECURSIVE SumSeq(_)
SumSeq(s) == IF s = <<>> THEN 0 ELSE Head(s) + SumSeq(Tail(s))

VecAdd(a, b) == <<a[1] + b[1], a[2] + b[2], a[3] + b[3]>>
VecSub(a, b) == <<a[1] - b[1], a[2] - b[2], a[3] - b[3]>>
VecScale(k, a) == <<k * a[1], k * a[2], k * a[3]>>

\* exact rationals
RatLess(p, q) == p[1] * q[2] < q[1] * p[2]
RatZero == <<0, 1>>
RatOne == <<1, 1>>

-----------------------------------------------------------------------------
(* frame_range: Python's range(frame_start, frame_end + 1, frame_step) *)

\* len(range(start, stop, step)) for step >= 1
RangeLen(start, stop, step) ==
    IF stop > start THEN ((stop - start - 1) \div step) + 1 ELSE 0

\* range(start, stop, step)[k], 0-based
RangeAt(start, step, k) == start + k * step

\* frame_range with the end frame left out: range(frame_start, frame_end, step)
frame_range_exclusive(fstart, fend, fstep) ==
    [start |-> fstart, stop |-> fend, step |-> fstep]

frame_range(fstart, fend, fstep) ==
    [start |-> fstart, stop |-> fend + 1, step |-> fstep]

FrameRangeLen(r) == RangeLen(r.start, r.stop, r.step)

-----------------------------------------------------------------------------
(* The scene: objects the user can select, and frame ranges.               *)
(* An object is [name, type, data, modifiers, matrix_world, vel]: data is  *)
(* its mesh (vertices, loops as 0-based vertex indices, UV layer names),   *)
(* matrix_world a translation, vel the displacement per frame that the     *)
(* object's animation gives every evaluated vertex.                        *)

Vert(c, n) == [co |-> c, normal |-> n]

Tri ==
    [name |-> "Tri", type |-> "MESH",
     data |-> [vertices |-> << Vert(<<0, 0, 0>>, <<0, 0, 1>>),
                               Vert(<<1, 0, 0>>, <<0, 0, 1>>),
                               Vert(<<0, 1, 0>>, <<0, 0, 1>>) >>,
               loops |-> <<0, 1, 2>>,
               uv_layers |-> << "UVMap" >>],
     modifiers |-> << "ARMATURE" >>,
     matrix_world |-> <<0, 0, 0>>,
     vel |-> <<1, 2, 3>>]

Point ==
    [name |-> "Point", type |-> "MESH",
     data |-> [vertices |-> << Vert(<<0, 0, 0>>, <<0, -1, 0>>) >>,
               loops |-> << >>,
               uv_layers |-> << >>],
     modifiers |-> << >>,
     matrix_world |-> <<5, 0, 0>>,
     vel |-> <<0, -1, 0>>]

\* two triangles sharing an edge: vertices 0 and 2 carry two loops each
Quad ==
    [name |-> "Quad", type |-> "MESH",
     data |-> [vertices |-> << Vert(<<0, 0, 0>>, <<1, 0, 0>>),
                               Vert(<<0, 1, 0>>, <<1, 0, 0>>),
                               Vert(<<0, 1, 1>>, <<1, 0, 0>>),
                               Vert(<<0, 0, 1>>, <<1, 0, 0>>) >>,
               loops |-> <<0, 1, 2, 0, 2, 3>>,
               uv_layers |-> << "UVMap", "Lightmap" >>],
     modifiers |-> << "HOOK", "WAVE" >>,
     matrix_world |-> <<0, 0, 2>>,
     vel |-> <<0, 0, 0>>]

\* a selected object that is no mesh
Camera ==
    [name |-> "Camera", type |-> "CAMERA",
     data |-> [vertices |-> << >>, loops |-> << >>, uv_layers |-> << >>],
     modifiers |-> << >>,
     matrix_world |-> <<0, 0, 9>>,
     vel |-> <<0, 0, 0>>]

\* a mesh with a modifier outside the allow-list, after an allowed one
Mirrored ==
    [name |-> "Mirrored", type |-> "MESH",
     data |-> [vertices |-> << Vert(<<1, 0, 0>>, <<0, 1, 0>>),
                               Vert(<<2, 0, 0>>, <<0, 1, 0>>) >>,
               loops |-> << >>,
               uv_layers |-> << >>],
     modifiers |-> << "ARMATURE", "MIRROR" >>,
     matrix_world |-> <<0, 0, 0>>,
     vel |-> <<1, 0, 0>>]

\* a mesh of n unanimated vertices
Cloud(n) ==
    [name |-> "Cloud", type |-> "MESH",
     data |-> [vertices |-> [j \in 1..n |-> Vert(<<0, 0, 0>>, <<0, 0, 1>>)],
               loops |-> << >>,
               uv_layers |-> << >>],
     modifiers |-> << >>,
     matrix_world |-> <<0, 0, 0>>,
     vel |-> <<0, 0, 0>>]

\* the objects of the scene, in the order the host lists a selection
Pool == << Tri, Point, Quad, Camera, Mirrored, Cloud(VertexLimit + 1) >>

\* the selection holding Pool's members S, in scene order
RECURSIVE Pick(_, _, _)
Pick(pool, S, k) ==
    IF k > Len(pool) THEN << >>
    ELSE (IF k \in S THEN << pool[k] >> ELSE << >>) \o Pick(pool, S, k + 1)

SelectionsOf(pool) ==
    { Pick(pool, S, 1) :
        S \in { T \in SUBSET (1..Len(pool)) :
                  /\ Cardinality(T) \in 1..MaxObjects
                  /\ \E k \in T : pool[k].type = "MESH" } }

Selections == SelectionsOf(Pool)

FrameStarts == {1, 2}
FrameSteps == {1, 2}

\* frame ranges short enough to sample, and one of FrameLimit + 1 frames
FrameRanges ==
    { r \in [start : FrameStarts, end : 1..MaxFrameEnd, step : FrameSteps] :
        r.end >= r.start }
    \cup { [start |-> 1, end |-> FrameLimit + 1, step |-> 1] }

-----------------------------------------------------------------------------
(* The host's evaluator and mesh library, as far as the add-on uses them *)

\* modifiers that keep vertex count and order
allowed_modifiers ==
    { "ARMATURE", "CAST", "CURVE", "DISPLACE", "HOOK",
      "LAPLACIANDEFORM", "LATTICE", "MESH_DEFORM",
      "SHRINKWRAP", "SIMPLE_DEFORM", "SMOOTH",
      "CORRECTIVE_SMOOTH", "LAPLACIANSMOOTH",
      "SURFACE_DEFORM", "WARP", "WAVE" }

HasModifier(ob, t) == \E k \in DOMAIN ob.modifiers : ob.modifiers[k] = t

MirrorVert(v) ==
    [co |-> <<0 - v.co[1], v.co[2], v.co[3]>>, normal |-> v.normal]

\* data.meshes.new_from_object(ob.evaluated_get(depsgraph)) at frame f: the
\* object's mesh with its animation and modifiers applied, in local space.
\* A MIRROR modifier appends a mirrored copy of the geometry.
new_from_object(ob, f) ==
    LET moved == [j \in DOMAIN ob.data.vertices |->
                    [co |-> VecAdd(ob.data.vertices[j].co, VecScale(f, ob.vel)),
                     normal |-> ob.data.vertices[j].normal]]
        n == Len(moved)
    IN  IF HasModifier(ob, "MIRROR")
        THEN [vertices |-> moved \o [j \in DOMAIN moved |-> MirrorVert(moved[j])],
              loops |-> ob.data.loops
                        \o [l \in DOMAIN ob.data.loops |-> ob.data.loops[l] + n],
              uv_layers |-> ob.data.uv_layers]
        ELSE [vertices |-> moved,
              loops |-> ob.data.loops,
              uv_layers |-> ob.data.uv_layers]

\* me.transform(matrix_world), matrix_world a translation
transform(me, loc) ==
    [me EXCEPT !.vertices =
        [j \in DOMAIN me.vertices |->
            [co |-> VecAdd(me.vertices[j].co, loc),
             normal |-> me.vertices[j].normal]]]

\* bmesh.new()
bmesh_new == [verts |-> << >>, loops |-> << >>, uv_layers |-> << >>]

\* bm.from_mesh(me): me's geometry appended after bm's, its loops re-indexed;
\* bm keeps its UV layers and gains the ones me has beyond their number
from_mesh(bm, me) ==
    [verts |-> bm.verts \o me.vertices,
     loops |-> bm.loops
               \o [l \in DOMAIN me.loops |-> me.loops[l] + Len(bm.verts)],
     uv_layers |-> bm.uv_layers
                   \o SubSeq(me.uv_layers, Len(bm.uv_layers) + 1,
                             Len(me.uv_layers))]

\* a UV layer over n loops, every UV (0, 0)
UVLayer(nm, n) == [name |-> nm, data |-> [l \in 1..n |-> <<RatZero, RatZero>>]]

\* bm.to_mesh(me) into the fresh mesh data.meshes.new(nm) with id i
to_mesh(bm, i, nm) ==
    [id |-> i, name |-> nm,
     vertices |-> bm.verts,
     loops |-> bm.loops,
     uv_layers |-> [k \in DOMAIN bm.uv_layers |->
                      UVLayer(bm.uv_layers[k], Len(bm.loops))]]

\* the stored mesh with id i: a Python reference to a mesh data-block
MeshById(store, i) == CHOOSE m \in Range(store) : m.id = i

\* the name the host gives a new data-block asked to be called base
RECURSIVE UniqueFrom(_, _, _)
UniqueFrom(taken, base, n) ==
    IF <<base, n>> \in taken THEN UniqueFrom(taken, base, n + 1)
    ELSE <<base, n>>

UniqueName(taken, base) == UniqueFrom(taken, base, 0)

-----------------------------------------------------------------------------
(* The add-on's functions *)

\* str.title() of the modifier type names the scene holds
Title(t) ==
    CASE t = "MIRROR" -> "Mirror"
      [] t = "SUBSURF" -> "Subsurf"
      [] t = "BOOLEAN" -> "Boolean"
      [] OTHER -> t

\* format(n, ",") as its groups of three digits, most significant first
RECURSIVE Thousands(_)
Thousands(n) ==
    IF n < 1000 THEN << n >> ELSE Append(Thousands(n \div 1000), n % 1000)

\* execute: objects = [ob for ob in context.selected_objects if ob.type == 'MESH']
MeshObjects(sel) == SelectSeq(sel, LAMBDA ob : ob.type = "MESH")

\* vertex_count taken from the first object alone
VertexCountOfFirst(objs) == Len(objs[1].data.vertices)

\* execute: vertex_count = sum([len(ob.data.vertices) for ob in objects])
VertexCount(objs) ==
    SumSeq([k \in DOMAIN objs |-> Len(objs[k].data.vertices)])

\* the modifier types of objs in the order execute's nested loops visit them
RECURSIVE ModifierTypes(_)
ModifierTypes(objs) ==
    IF objs = << >> THEN << >>
    ELSE Head(objs).modifiers \o ModifierTypes(Tail(objs))

\* the guard without its frame-count check
GuardWithoutFrameCheck(objs, vc, fc) ==
    LET bad == SelectSeq(ModifierTypes(objs),
                         LAMBDA t : t \notin allowed_modifiers)
    IN  IF bad # << >>
        THEN << [type |-> "ERROR",
                 message |-> << "Objects with ", Title(Head(bad)),
                                " modifiers are not allowed!" >>] >>
        ELSE IF vc > VertexLimit
        THEN << [type |-> "ERROR",
                 message |-> << "Vertex count of ", Thousands(vc),
                                ", exceeds limit of 8,192!" >>] >>
        ELSE << >>

\* the guard with >= for > in both limit checks
GuardOffByOne(objs, vc, fc) ==
    LET bad == SelectSeq(ModifierTypes(objs),
                         LAMBDA t : t \notin allowed_modifiers)
    IN  IF bad # << >>
        THEN << [type |-> "ERROR",
                 message |-> << "Objects with ", Title(Head(bad)),
                                " modifiers are not allowed!" >>] >>
        ELSE IF vc >= VertexLimit
        THEN << [type |-> "ERROR",
                 message |-> << "Vertex count of ", Thousands(vc),
                                ", exceeds limit of 8,192!" >>] >>
        ELSE IF fc >= FrameLimit
        THEN << [type |-> "ERROR",
                 message |-> << "Frame count of ", Thousands(fc),
                                ", exceeds limit of 8,192!" >>] >>
        ELSE << >>

\* execute's three checks in order: the report of the first that fails,
\* or << >> when the input is accepted
Guard(objs, vc, fc) ==
    LET bad == SelectSeq(ModifierTypes(objs),
                         LAMBDA t : t \notin allowed_modifiers)
    IN  IF bad # << >>
        THEN << [type |-> "ERROR",
                 message |-> << "Objects with ", Title(Head(bad)),
                                " modifiers are not allowed!" >>] >>
        ELSE IF vc > VertexLimit
        THEN << [type |-> "ERROR",
                 message |-> << "Vertex count of ", Thousands(vc),
                                ", exceeds limit of 8,192!" >>] >>
        ELSE IF fc > FrameLimit
        THEN << [type |-> "ERROR",
                 message |-> << "Frame count of ", Thousands(fc),
                                ", exceeds limit of 8,192!" >>] >>
        ELSE << >>

\* get_per_frame_mesh_data, one frame: the bmesh after the loop over objects.
\* Each object's temporary mesh is created, transformed, read and removed
\* within its iteration.
RECURSIVE MergeObjects(_, _, _)
MergeObjects(bm, objs, f) ==
    IF objs = << >> THEN bm
    ELSE LET ob == Head(objs)
             me == transform(new_from_object(ob, f), ob.matrix_world)
         IN  MergeObjects(from_mesh(bm, me), Tail(objs), f)

\* the UV without the half-texel shift: (i / V, 0)
ExportUVNoHalf(i, V) == << <<2 * i, 2 * V>>, RatZero >>

\* create_export_mesh_object: the UV written for a loop of vertex i of V
ExportUV(i, V) == << <<2 * i + 1, 2 * V>>, RatZero >>

\* create_export_mesh_object: while len(me.uv_layers) < 2: me.uv_layers.new()
RECURSIVE EnsureTwoLayers(_, _)
EnsureTwoLayers(layers, nloops) ==
    IF Len(layers) < 2
    THEN EnsureTwoLayers(
           Append(layers,
                  UVLayer(IF \E k \in DOMAIN layers : layers[k].name = "UVMap"
                          THEN "UVMap.001" ELSE "UVMap", nloops)),
           nloops)
    ELSE layers

\* create_export_mesh_object: me with its second UV layer renamed and filled
WithVertexAnimUV(me) ==
    LET layers == EnsureTwoLayers(me.uv_layers, Len(me.loops))
        filled == [name |-> "vertex_anim",
                   data |-> [l \in DOMAIN me.loops |->
                               ExportUV(me.loops[l], Len(me.vertices))]]
    IN  [me EXCEPT !.uv_layers = [layers EXCEPT ![2] = filled]]

\* the four channels of a sequence of pixels, flattened
Flatten4(px) ==
    [k \in 1..(4 * Len(px)) |-> px[((k - 1) \div 4) + 1][((k - 1) % 4) + 1]]

\* the offset pixel without the sign flip of y
OffsetPixelNoFlip(v, orig) ==
    LET d == VecSub(v.co, orig.co)
    IN  << d[1], d[2], d[3], 1 >>

\* get_vertex_data: the offset pixel of vertex v against the first frame's
OffsetPixel(v, orig) ==
    LET d == VecSub(v.co, orig.co)
    IN  << d[1], 0 - d[2], d[3], 1 >>

\* get_vertex_data: the normal pixel of vertex v, (n + 1) * 0.5 as a rational
NormalPixel(v) ==
    << <<v.normal[1] + 1, 2>>, <<(0 - v.normal[2]) + 1, 2>>,
       <<v.normal[3] + 1, 2>>, RatOne >>

\* get_vertex_data raises IndexError at original[v.index] when a snapshot
\* has more vertices than the first
VertexDataRaises(ms) ==
    \E k \in DOMAIN ms : Len(ms[k].vertices) > Len(ms[1].vertices)

RECURSIVE OffsetsOf(_, _)
OffsetsOf(ms, original) ==
    IF ms = << >> THEN << >>
    ELSE Flatten4([j \in DOMAIN Head(ms).vertices |->
                     OffsetPixel(Head(ms).vertices[j], original[j])])
         \o OffsetsOf(Tail(ms), original)

RECURSIVE NormalsOf(_)
NormalsOf(ms) ==
    IF ms = << >> THEN << >>
    ELSE Flatten4([j \in DOMAIN Head(ms).vertices |->
                     NormalPixel(Head(ms).vertices[j])])
         \o NormalsOf(Tail(ms))

\* get_vertex_data(data, meshes), ms the meshes in list order
get_vertex_data(ms) ==
    [offsets |-> OffsetsOf(ms, ms[1].vertices), normals |-> NormalsOf(ms)]

\* bake_vertex_data: if name in bpy.data.images: remove it
RemoveIfPresent(images, nm) ==
    IF nm \in DOMAIN images
    THEN [n \in DOMAIN images \ {nm} |-> images[n]]
    ELSE images

\* data.images.new(name=base, ...) followed by the pixel assignment
ImagesNew(images, base, img) ==
    (UniqueName(DOMAIN images, base) :> img) @@ images

\* the new image made without removing the one that holds the name
ReplaceImageKeepOld(images, base, img) == ImagesNew(images, base, img)

\* bake_vertex_data: the image store after replacing the image called base
ReplaceImage(images, base, img) ==
    ImagesNew(RemoveIfPresent(images, <<base, 0>>), base, img)

\* image.pixels = px raises unless px has width * height * 4 entries
PixelsFit(px, width, height) == Len(px) = width * height * 4

-----------------------------------------------------------------------------
(* Initial states.  The mesh store holds the data-blocks the add-on makes; *)
(* the scene's own meshes are read through the objects and never written.  *)
(* The image store starts with a stale image called "offsets", left by an  *)
(* earlier session, and no image called "normals".                         *)

StaleImage ==
    [width |-> 1, height |-> 1, float_buffer |-> FALSE,
     pixels |-> <<0, 0, 0, 0>>, run |-> 0]

InitialImages == (<<"offsets", 0>> :> StaleImage)

InitWith(sels, ranges) ==
    /\ selected_objects \in sels
    /\ \E r \in ranges :
         /\ frame_start = r.start
         /\ frame_end = r.end
         /\ frame_step = r.step
    /\ frame_current = frame_end
    /\ data_meshes = << >>
    /\ data_objects = << >>
    /\ data_images = InitialImages
    /\ data_scenes = {}
    /\ dirs = {}
    /\ files = << >>
    /\ pc = "idle"
    /\ result = "NONE"
    /\ reports = << >>
    /\ objects = << >>
    /\ vertex_count = 0
    /\ frame_count = 0
    /\ meshes = << >>
    /\ frame_i = 0
    /\ export_mesh_data = 0
    /\ offsets = << >>
    /\ normals = << >>
    /\ frame_log = << >>
    /\ write_log = << >>
    /\ meshes_before = {}
    /\ runs = 0
    /\ faults = 0
    /\ mesh_ids = 0

Init == InitWith(Selections, FrameRanges)

-----------------------------------------------------------------------------
(* One run of OBJECT_OT_ProcessAnimMeshes.execute *)

host_vars == <<frame_current, data_meshes, data_objects, data_images,
               data_scenes, dirs, files, mesh_ids>>

sample_vars == <<meshes, frame_i, frame_log>>

\* the run ends: execute returns res, or an exception leaves it ("ERROR")
Return(res) ==
    /\ result' = res
    /\ pc' = "idle"
    /\ runs' = runs + 1

\* an evaluator or I/O failure is injected
Fault ==
    /\ faults < MaxFaults
    /\ faults' = faults + 1

\* execute up to its last check: the locals are computed and the guard
\* decides between CANCELLED with a report and sampling
Execute ==
    /\ pc = "idle"
    /\ runs < MaxRuns
    /\ LET objs == MeshObjects(selected_objects)
           vc == VertexCount(objs)
           fc == FrameRangeLen(frame_range(frame_start, frame_end, frame_step))
           rep == Guard(objs, vc, fc)
       IN  /\ objects' = objs
           /\ vertex_count' = vc
           /\ frame_count' = fc
           /\ reports' = rep
           /\ \/ /\ rep # << >>
                 /\ Return("CANCELLED")
              \/ /\ rep = << >>
                 /\ result' = "RUNNING"
                 /\ pc' = "sampling"
                 /\ runs' = runs
    /\ meshes' = << >>
    /\ frame_i' = 0
    /\ export_mesh_data' = 0
    /\ offsets' = << >>
    /\ normals' = << >>
    /\ frame_log' = << >>
    /\ write_log' = << >>
    /\ meshes_before' = {m.id : m \in Range(data_meshes)}
    /\ UNCHANGED <<scene_vars, host_vars, faults>>

\* get_per_frame_mesh_data: the loop takes its next frame and sets it
FrameSet ==
    /\ pc = "sampling"
    /\ LET r == frame_range(frame_start, frame_end, frame_step)
       IN  /\ frame_i < FrameRangeLen(r)
           /\ frame_current' = RangeAt(r.start, r.step, frame_i)
           /\ frame_log' = Append(frame_log, RangeAt(r.start, r.step, frame_i))
    /\ pc' = "evaluating"
    /\ UNCHANGED <<scene_vars, data_meshes, data_objects, data_images,
                   data_scenes, dirs, files, mesh_ids, result, reports,
                   objects, vertex_count, frame_count, meshes, frame_i,
                   export_mesh_data, offsets, normals, write_log,
                   meshes_before, runs, faults>>

\* get_per_frame_mesh_data: the objects are evaluated at the current frame,
\* merged, and the merged mesh is stored and appended
Snapshot ==
    /\ pc = "evaluating"
    /\ LET bm == MergeObjects(bmesh_new, objects, frame_current)
           me == to_mesh(bm, mesh_ids + 1, "mesh")
       IN  /\ data_meshes' = Append(data_meshes, me)
           /\ meshes' = Append(meshes, me.id)
    /\ mesh_ids' = mesh_ids + 1
    /\ frame_i' = frame_i + 1
    /\ pc' = "sampling"
    /\ UNCHANGED <<scene_vars, frame_current, data_objects, data_images,
                   data_scenes, dirs, files, result, reports,
                   objects, vertex_count, frame_count,
                   export_mesh_data, offsets, normals, frame_log, write_log,
                   meshes_before, runs, faults>>

\* the evaluator's exception swallowed: the loop goes on to the next frame
EvaluateFailsSwallowed ==
    /\ pc = "evaluating"
    /\ Fault
    /\ frame_i' = frame_i + 1
    /\ pc' = "sampling"
    /\ UNCHANGED <<scene_vars, host_vars, result, runs, reports, objects,
                   vertex_count, frame_count, meshes, frame_log,
                   export_mesh_data, offsets, normals, write_log,
                   meshes_before>>

\* get_per_frame_mesh_data: the evaluator raises at the current frame, before
\* any mesh of this frame is stored; the exception leaves execute
EvaluateFails ==
    /\ pc = "evaluating"
    /\ Fault
    /\ Return("ERROR")
    /\ UNCHANGED <<scene_vars, host_vars, reports, objects, vertex_count,
                   frame_count, sample_vars, export_mesh_data, offsets,
                   normals, write_log, meshes_before>>

\* the loop is over: export_mesh_data = meshes[0].copy() and
\* create_export_mesh_object(context, data, export_mesh_data)
CreateExportMesh ==
    /\ pc = "sampling"
    /\ frame_i = FrameRangeLen(frame_range(frame_start, frame_end, frame_step))
    /\ IF meshes = << >>
       THEN /\ Return("ERROR")
            /\ UNCHANGED <<data_meshes, data_objects, mesh_ids,
                           export_mesh_data>>
       ELSE LET copy == [MeshById(data_meshes, meshes[1])
                           EXCEPT !.id = mesh_ids + 1]
                me == WithVertexAnimUV(copy)
                ob == [name |-> UniqueName({o.name : o \in Range(data_objects)},
                                           "export_mesh"),
                       data |-> me.id]
            IN  /\ data_meshes' = Append(data_meshes, me)
                /\ data_objects' = Append(data_objects, ob)
                /\ export_mesh_data' = me.id
                /\ mesh_ids' = mesh_ids + 1
                /\ pc' = "extract"
                /\ UNCHANGED <<result, runs>>
    /\ UNCHANGED <<scene_vars, frame_current, data_images, data_scenes, dirs,
                   files, reports, objects, vertex_count, frame_count,
                   sample_vars, offsets, normals, write_log, meshes_before,
                   faults>>

\* offsets, normals = get_vertex_data(data, meshes)
GetVertexData ==
    /\ pc = "extract"
    /\ LET ms == [k \in DOMAIN meshes |-> MeshById(data_meshes, meshes[k])]
       IN  IF VertexDataRaises(ms)
           THEN /\ Return("ERROR")
                /\ UNCHANGED <<offsets, normals>>
           ELSE /\ offsets' = get_vertex_data(ms).offsets
                /\ normals' = get_vertex_data(ms).normals
                /\ pc' = "bake_offsets"
                /\ UNCHANGED <<result, runs>>
    /\ UNCHANGED <<scene_vars, host_vars, reports, objects, vertex_count,
                   frame_count, sample_vars, export_mesh_data, write_log,
                   meshes_before, faults>>

-----------------------------------------------------------------------------
(* bake_vertex_data(context, data, offsets, normals, (vertex_count,        *)
(* frame_count)), in two steps: the offsets texture, then the normals one  *)

OffsetsPath == "vaexport/offsets.exr"
NormalsPath == "vaexport/normals.png"

\* a channel value stored in an 8-bit image: clamped to [0, 1] and rounded
\* to the nearest of the 256 levels, halves upwards
Quantize8(r) ==
    IF r[1] <= 0 THEN <<0, 255>>
    ELSE IF r[1] >= r[2] THEN <<255, 255>>
    ELSE <<(2 * 255 * r[1] + r[2]) \div (2 * r[2]), 255>>

\* the pixels an 8-bit image keeps of px
Quantized(px) == [k \in DOMAIN px |-> Quantize8(px[k])]

\* the image bake_vertex_data makes for px: the pixel assignment raises when
\* px does not fit, and the new image keeps its blank pixels; an image
\* without a float buffer stores 8 bits a channel
BakedImage(px, width, height, float) ==
    [width |-> width, height |-> height, float_buffer |-> float,
     pixels |-> IF ~PixelsFit(px, width, height)
                THEN [k \in 1..(width * height * 4) |-> 0]
                ELSE IF float THEN px
                ELSE Quantized(px),
     run |-> runs + 1]

\* image.save_render(path, scene): the file the write leaves
SavedFile(fs, path, img) ==
    (path :> [width |-> img.width, height |-> img.height, run |-> img.run])
      @@ fs

\* os.makedirs raises: nothing of bake_vertex_data has happened yet
MakedirsFails ==
    /\ pc = "bake_offsets"
    /\ "vaexport" \notin dirs
    /\ Fault
    /\ Return("ERROR")
    /\ UNCHANGED <<scene_vars, host_vars, reports, objects, vertex_count,
                   frame_count, sample_vars, export_mesh_data, offsets,
                   normals, write_log, meshes_before>>

\* the directory, the export scene, the image called "offsets" replaced,
\* its pixels set, the file written, the export scene removed
BakeOffsets ==
    /\ pc = "bake_offsets"
    /\ dirs' = dirs \cup {"vaexport"}
    /\ LET img == BakedImage(offsets, vertex_count, frame_count, TRUE)
       IN  /\ data_images' = ReplaceImage(data_images, "offsets", img)
           /\ IF PixelsFit(offsets, vertex_count, frame_count)
              THEN /\ files' = SavedFile(files, OffsetsPath, img)
                   /\ write_log' = Append(write_log, OffsetsPath)
                   /\ pc' = "bake_normals"
                   /\ UNCHANGED <<data_scenes, result, runs>>
              ELSE /\ data_scenes' = data_scenes \cup
                         {UniqueName(data_scenes, "openexr_export_scene")}
                   /\ Return("ERROR")
                   /\ UNCHANGED <<files, write_log>>
    /\ UNCHANGED <<scene_vars, frame_current, data_meshes, data_objects,
                   mesh_ids, reports, objects, vertex_count, frame_count,
                   sample_vars, export_mesh_data, offsets, normals,
                   meshes_before, faults>>

\* save_render of the offsets raises: the image is in the store, the export
\* scene is never removed, no file is written
OffsetsWriteFails ==
    /\ pc = "bake_offsets"
    /\ PixelsFit(offsets, vertex_count, frame_count)
    /\ Fault
    /\ dirs' = dirs \cup {"vaexport"}
    /\ data_images' = ReplaceImage(data_images, "offsets",
                        BakedImage(offsets, vertex_count, frame_count, TRUE))
    /\ data_scenes' = data_scenes \cup
                        {UniqueName(data_scenes, "openexr_export_scene")}
    /\ Return("ERROR")
    /\ UNCHANGED <<scene_vars, frame_current, data_meshes, data_objects,
                   mesh_ids, files, reports, objects, vertex_count,
                   frame_count, sample_vars, export_mesh_data, offsets,
                   normals, write_log, meshes_before>>

\* the PNG export scene, the image called "normals" replaced, its pixels
\* set, the file written, the scene removed; execute returns FINISHED
BakeNormals ==
    /\ pc = "bake_normals"
    /\ LET img == BakedImage(normals, vertex_count, frame_count, FALSE)
       IN  /\ data_images' = ReplaceImage(data_images, "normals", img)
           /\ IF PixelsFit(normals, vertex_count, frame_count)
              THEN /\ files' = SavedFile(files, NormalsPath, img)
                   /\ write_log' = Append(write_log, NormalsPath)
                   /\ Return("FINISHED")
                   /\ UNCHANGED data_scenes
              ELSE /\ data_scenes' = data_scenes \cup
                         {UniqueName(data_scenes, "png_export_scene")}
                   /\ Return("ERROR")
                   /\ UNCHANGED <<files, write_log>>
    /\ UNCHANGED <<scene_vars, frame_current, data_meshes, data_objects,
                   mesh_ids, dirs, reports, objects, vertex_count,
                   frame_count, sample_vars, export_mesh_data, offsets,
                   normals, meshes_before, faults>>

\* the normals write fails and the offsets file is deleted again
NormalsWriteFailsRollback ==
    /\ pc = "bake_normals"
    /\ PixelsFit(normals, vertex_count, frame_count)
    /\ Fault
    /\ data_images' = ReplaceImage(data_images, "normals",
                        BakedImage(normals, vertex_count, frame_count, FALSE))
    /\ data_scenes' = data_scenes \cup
                        {UniqueName(data_scenes, "png_export_scene")}
    /\ files' = [q \in DOMAIN files \ {OffsetsPath} |-> files[q]]
    /\ Return("ERROR")
    /\ UNCHANGED <<scene_vars, frame_current, data_meshes, data_objects,
                   mesh_ids, dirs, reports, objects, vertex_count,
                   frame_count, sample_vars, export_mesh_data, offsets,
                   normals, write_log, meshes_before>>

\* save_render of the normals raises: the offsets file stays as written
NormalsWriteFails ==
    /\ pc = "bake_normals"
    /\ PixelsFit(normals, vertex_count, frame_count)
    /\ Fault
    /\ data_images' = ReplaceImage(data_images, "normals",
                        BakedImage(normals, vertex_count, frame_count, FALSE))
    /\ data_scenes' = data_scenes \cup
                        {UniqueName(data_scenes, "png_export_scene")}
    /\ Return("ERROR")
    /\ UNCHANGED <<scene_vars, frame_current, data_meshes, data_objects,
                   mesh_ids, dirs, files, reports, objects, vertex_count,
                   frame_count, sample_vars, export_mesh_data, offsets,
                   normals, write_log, meshes_before>>

-----------------------------------------------------------------------------
(* Specifications *)

Next ==
    \/ Execute
    \/ FrameSet
    \/ Snapshot
    \/ EvaluateFails
    \/ CreateExportMesh
    \/ GetVertexData
    \/ MakedirsFails
    \/ BakeOffsets
    \/ OffsetsWriteFails
    \/ BakeNormals
    \/ NormalsWriteFails

Spec == Init /\ [][Next]_vars

\* The guard alone, on scenes at the two limits: execute runs up to its last
\* check on selections of VertexLimit - 1, VertexLimit and VertexLimit + 1
\* vertices and on ranges of FrameLimit and FrameLimit + 1 frames.
GuardPool ==
    << Point, Mirrored, Camera, Cloud(VertexLimit - 1), Cloud(VertexLimit) >>

GuardRanges ==
    { [start |-> 1, end |-> 1, step |-> 1],
      [start |-> 1, end |-> FrameLimit, step |-> 1],
      [start |-> 1, end |-> FrameLimit + 1, step |-> 1],
      [start |-> 2, end |-> FrameLimit + 1, step |-> 1],
      [start |-> 1, end |-> 2 * FrameLimit, step |-> 2],
      [start |-> 1, end |-> 2 * FrameLimit + 1, step |-> 2] }

InitGuard == InitWith(SelectionsOf(GuardPool), GuardRanges)

NextGuard == Execute

SpecGuard == InitGuard /\ [][NextGuard]_vars

-----------------------------------------------------------------------------
(* What the claims speak of, read from the scene and the stores *)

\* some selected mesh object carries a modifier outside the allow-list
BadModifierPresent ==
    \E k \in DOMAIN selected_objects :
        /\ selected_objects[k].type = "MESH"
        /\ \E m \in DOMAIN selected_objects[k].modifiers :
              selected_objects[k].modifiers[m] \notin allowed_modifiers

\* the vertices of the selected mesh objects
TotalVertices ==
    SumSeq([k \in DOMAIN selected_objects |->
              IF selected_objects[k].type = "MESH"
              THEN Len(selected_objects[k].data.vertices) ELSE 0])

\* the frames f = frame_start + k * frame_step with f <= frame_end
FrameTotal ==
    Cardinality({k \in 0..(frame_end - frame_start) :
                    frame_start + k * frame_step <= frame_end})

Rejectable ==
    \/ BadModifierPresent
    \/ TotalVertices > VertexLimit
    \/ FrameTotal > FrameLimit

\* execute has been called at least once
Called == runs > 0 \/ pc # "idle"

\* the run in progress, or the last one when none is
ThisRun == IF pc = "idle" THEN runs ELSE runs + 1

ImagesOfRun(n) == {nm \in DOMAIN data_images : data_images[nm].run = n}
FilesOfRun(n) == {p \in DOMAIN files : files[p].run = n}
StoredIds == {m.id : m \in Range(data_meshes)}
\* export objects whose mesh was made by the current (or last) run
ExportObjectsOfRun ==
    {k \in DOMAIN data_objects : data_objects[k].data \notin meshes_before}

\* the snapshots of the current run, in list order
SnapshotMeshes == [k \in DOMAIN meshes |-> MeshById(data_meshes, meshes[k])]

\* the merged geometry of the selected mesh objects at frame f
GeometryAt(f) ==
    MergeObjects(bmesh_new, MeshObjects(selected_objects), f).verts

-----------------------------------------------------------------------------
(* C1, C2: the guard *)

\* C1: on an input with a disallowed modifier, more than 8192 vertices or
\* more than 8192 frames, execute returns CANCELLED with an error report and
\* changes nothing: the current frame is never set, no mesh, export object,
\* image, temporary scene, directory or file is created.
C1_RejectionChangesNothing ==
    (Rejectable /\ Called) =>
        /\ pc = "idle"
        /\ result = "CANCELLED"
        /\ Len(reports) = 1
        /\ reports[1].type = "ERROR"
        /\ frame_log = << >>
        /\ frame_current = frame_end
        /\ data_meshes = << >>
        /\ data_objects = << >>
        /\ data_images = InitialImages
        /\ data_scenes = {}
        /\ dirs = {}
        /\ files = << >>

C1_Witness ==
    /\ result = "CANCELLED"
    /\ ~BadModifierPresent
    /\ TotalVertices > VertexLimit
    /\ runs > 0

\* C2: execute proceeds to sampling exactly when every modifier is allowed,
\* the vertex total is at most 8192 and the frame count is at most 8192; a
\* rejection owed to the vertex count alone cites the vertex count, one owed
\* to the frame count alone cites the frame count.
C2_GuardDecides ==
    Called =>
        /\ (pc = "sampling") <=>
              (/\ ~BadModifierPresent
               /\ TotalVertices <= 8192
               /\ FrameTotal <= 8192)
        /\ (pc = "idle") <=> (result = "CANCELLED")
        /\ (~BadModifierPresent /\ TotalVertices > 8192 /\ FrameTotal <= 8192)
              => /\ Len(reports) = 1
                 /\ reports[1].message[1] = "Vertex count of "
                 /\ reports[1].message[2] = Thousands(TotalVertices)
        /\ (~BadModifierPresent /\ TotalVertices <= 8192 /\ FrameTotal > 8192)
              => /\ Len(reports) = 1
                 /\ reports[1].message[1] = "Frame count of "
                 /\ reports[1].message[2] = Thousands(FrameTotal)

\* exactly 8192 vertices and exactly 8192 frames are accepted
C2_Witness ==
    /\ pc = "sampling"
    /\ TotalVertices = 8192
    /\ FrameTotal = 8192
    /\ Len(selected_objects) = 2

-----------------------------------------------------------------------------
(* C3, C4, C5: sampling and extraction *)

\* the arrays of get_vertex_data are in hand
Extracted == pc \in {"bake_offsets", "bake_normals"}

\* C3: for an accepted input, offsets and normals have the same length,
\* frameCount * vertexCount * 4, with frameCount the length of the frame
\* range and vertexCount execute's vertex total; so the texture size
\* (vertex_count, frame_count) passed on satisfies width * height * 4 =
\* len(offsets) = len(normals).
C3_BufferLengths ==
    Extracted =>
        /\ Len(offsets) = FrameTotal * TotalVertices * 4
        /\ Len(normals) = FrameTotal * TotalVertices * 4
        /\ vertex_count * frame_count * 4 = Len(offsets)
        /\ vertex_count * frame_count * 4 = Len(normals)
        /\ vertex_count <= 8192
        /\ frame_count <= 8192

\* the spec's end-to-end scenario: two objects, 4 vertices, 3 frames, 48 values
C3_Witness ==
    /\ pc = "bake_offsets"
    /\ Len(objects) = 2
    /\ vertex_count = 4
    /\ frame_count = 3
    /\ Len(offsets) = 48

\* C4: the sampler sets the frames start, start + step, ... up to the largest
\* one <= end, each once and in increasing order, and appends the snapshot of
\* a frame before it sets the next; the list it returns has frame_count
\* snapshots, snapshot k being the geometry at frame start + k * step.
C4_FrameOrder ==
    /\ \A k \in DOMAIN frame_log :
          /\ frame_log[k] = frame_start + (k - 1) * frame_step
          /\ frame_log[k] <= frame_end
    /\ \A k \in DOMAIN frame_log :
          k > 1 => frame_log[k - 1] < frame_log[k]
    /\ pc = "sampling" => Len(meshes) = Len(frame_log)
    /\ pc = "evaluating" => Len(frame_log) = Len(meshes) + 1
    /\ \A j, k \in DOMAIN meshes : j # k => meshes[j] # meshes[k]
    /\ pc \in {"extract", "bake_offsets", "bake_normals"} =>
          /\ Len(meshes) = FrameTotal
          /\ Len(meshes) = frame_count
          /\ Len(frame_log) = Len(meshes)
          /\ Len(frame_log) > 0
          /\ frame_log[Len(frame_log)] + frame_step > frame_end
          /\ \A k \in 0..(Len(meshes) - 1) :
                SnapshotMeshes[k + 1].vertices
                    = GeometryAt(frame_start + k * frame_step)

\* frames 1 and 3 of the range (1, 3, 2), sampled in that order
C4_Witness ==
    /\ pc = "extract"
    /\ frame_step = 2
    /\ frame_log = <<1, 3>>
    /\ Len(meshes) = 2

\* C5: with V vertices per snapshot, the four offsets entries of frame f and
\* vertex i, at 0-based positions (f * V + i) * 4 .. + 3, are (dx, -dy, dz, 1)
\* for (dx, dy, dz) = position[f][i] - position[0][i]; frame 0 gives
\* (0, 0, 0, 1), and a displacement of (1, 2, 3) gives (1, -2, 3, 1).
C5_OffsetEncoding ==
    Extracted =>
        LET V == Len(SnapshotMeshes[1].vertices)
            pos(f, i) == SnapshotMeshes[f + 1].vertices[i + 1].co
            at(f, i, c) == offsets[(f * V + i) * 4 + c + 1]
        IN  \A f \in 0..(Len(meshes) - 1) : \A i \in 0..(V - 1) :
              /\ at(f, i, 0) = pos(f, i)[1] - pos(0, i)[1]
              /\ at(f, i, 1) = 0 - (pos(f, i)[2] - pos(0, i)[2])
              /\ at(f, i, 2) = pos(f, i)[3] - pos(0, i)[3]
              /\ at(f, i, 3) = 1
              /\ f = 0 => <<at(f, i, 0), at(f, i, 1), at(f, i, 2)>> = <<0, 0, 0>>
              /\ VecSub(pos(f, i), pos(0, i)) = <<1, 2, 3>>
                    => <<at(f, i, 0), at(f, i, 1), at(f, i, 2), at(f, i, 3)>>
                         = <<1, -2, 3, 1>>

\* a vertex displaced by (1, 2, 3) at frame 1: row 1 starts with (1, -2, 3, 1)
C5_Witness ==
    /\ pc = "bake_offsets"
    /\ Len(meshes) >= 2
    /\ vertex_count = 4
    /\ VecSub(SnapshotMeshes[2].vertices[1].co, SnapshotMeshes[1].vertices[1].co)
          = <<1, 2, 3>>
    /\ SubSeq(offsets, 17, 20) = <<1, -2, 3, 1>>

-----------------------------------------------------------------------------
(* C6, C7: failures *)

\* a frame of the current run was set and its snapshot never appended
EvaluatorFailed ==
    Len(frame_log) > Len(meshes) + (IF pc = "evaluating" THEN 1 ELSE 0)

\* C6: a run creates no image and writes no file until every frame is
\* sampled and both arrays are computed; when the evaluator fails at a frame
\* the run fails and leaves no texture file, image or export object.
C6_NoPartialResults ==
    /\ pc \in {"sampling", "evaluating", "extract"} =>
          /\ ImagesOfRun(ThisRun) = {}
          /\ FilesOfRun(ThisRun) = {}
          /\ write_log = << >>
    /\ (Called /\ (ImagesOfRun(ThisRun) # {} \/ FilesOfRun(ThisRun) # {})) =>
          /\ Len(meshes) = FrameTotal
          /\ Len(frame_log) = FrameTotal
          /\ Len(offsets) = FrameTotal * TotalVertices * 4
          /\ Len(normals) = FrameTotal * TotalVertices * 4
    /\ EvaluatorFailed =>
          /\ pc = "idle"
          /\ result = "ERROR"
          /\ ImagesOfRun(ThisRun) = {}
          /\ FilesOfRun(ThisRun) = {}
          /\ ExportObjectsOfRun = {}

\* the evaluator failed at the second frame of a run that follows a finished one
C6_Witness ==
    /\ EvaluatorFailed
    /\ result = "ERROR"
    /\ Len(meshes) = 1
    /\ runs = 2
    /\ FilesOfRun(1) # {}

\* C7: bake_vertex_data writes the offsets file before the normals file,
\* each at most once, and rolls nothing back: when the offsets write has
\* succeeded and the normals write fails, the run ends in the failure and
\* the offsets file it wrote is still there.
C7_NoRollback ==
    /\ write_log \in {<< >>, <<OffsetsPath>>, <<OffsetsPath, NormalsPath>>}
    /\ \A k \in DOMAIN write_log :
          /\ write_log[k] \in DOMAIN files
          /\ files[write_log[k]].run = ThisRun
    /\ (pc = "idle" /\ write_log = <<OffsetsPath>>) =>
          /\ result = "ERROR"
          /\ OffsetsPath \in DOMAIN files
          /\ files[OffsetsPath].run = runs
          /\ files[OffsetsPath].width = vertex_count
          /\ files[OffsetsPath].height = frame_count
          /\ NormalsPath \notin FilesOfRun(runs)

C7_Witness ==
    /\ pc = "idle"
    /\ result = "ERROR"
    /\ write_log = <<OffsetsPath>>
    /\ OffsetsPath \in DOMAIN files
    /\ NormalsPath \notin DOMAIN files

-----------------------------------------------------------------------------
(* C8, C9, C10: what a finished run leaves *)

Finished == pc = "idle" /\ result = "FINISHED"

\* the arrays one run computes from the scene
SinglePass ==
    get_vertex_data([k \in 1..FrameTotal |->
        to_mesh(MergeObjects(bmesh_new, MeshObjects(selected_objects),
                             frame_start + (k - 1) * frame_step),
                0, "mesh")])

\* C8: after any number of finished runs on the same scene the image store
\* holds exactly one image called "offsets" and one called "normals", an
\* earlier image of either name replaced and never duplicated, with the
\* dimensions and pixels a single run leaves.
C8_ImagesReplaced ==
    Finished =>
        /\ {nm \in DOMAIN data_images : nm[1] = "offsets"} = {<<"offsets", 0>>}
        /\ {nm \in DOMAIN data_images : nm[1] = "normals"} = {<<"normals", 0>>}
        /\ data_images[<<"offsets", 0>>].width = TotalVertices
        /\ data_images[<<"offsets", 0>>].height = FrameTotal
        /\ data_images[<<"offsets", 0>>].pixels = SinglePass.offsets
        /\ data_images[<<"normals", 0>>].width = TotalVertices
        /\ data_images[<<"normals", 0>>].height = FrameTotal
        /\ data_images[<<"normals", 0>>].pixels = Quantized(SinglePass.normals)
        /\ data_images[<<"offsets", 0>>].float_buffer
        /\ ~data_images[<<"normals", 0>>].float_buffer

\* the second of two finished runs
C8_Witness ==
    /\ Finished
    /\ runs = 2
    /\ faults = 0
    /\ data_images[<<"offsets", 0>>].run = 2
    /\ data_images[<<"normals", 0>>].run = 2

\* C9: after execute returns FINISHED none of the run's snapshot meshes is
\* left in the mesh store; the run leaves only the export mesh, so the store
\* grows by one mesh per finished run.
C9_SnapshotsDiscarded ==
    Finished =>
        /\ \A k \in DOMAIN meshes : meshes[k] \notin StoredIds
        /\ StoredIds \ meshes_before = {export_mesh_data}
        /\ Len(data_meshes) = Cardinality(meshes_before) + 1

\* C10: on a mesh of V vertices the second UV layer is called "vertex_anim"
\* and every loop of vertex i has the UV ((i + 0.5) / V, 0), U = (2i+1)/(2V);
\* U is strictly increasing in i and strictly between 0 and 1.
C10_UVAddressing ==
    export_mesh_data # 0 =>
        LET me == MeshById(data_meshes, export_mesh_data)
            V == Len(me.vertices)
            uv(l) == me.uv_layers[2].data[l]
        IN  /\ Len(me.uv_layers) >= 2
            /\ me.uv_layers[2].name = "vertex_anim"
            /\ DOMAIN me.uv_layers[2].data = DOMAIN me.loops
            /\ \A l \in DOMAIN me.loops :
                  /\ me.loops[l] \in 0..(V - 1)
                  /\ uv(l)[1][2] > 0
                  /\ uv(l)[1][1] * (2 * V) = (2 * me.loops[l] + 1) * uv(l)[1][2]
                  /\ uv(l)[2][1] = 0
                  /\ RatLess(RatZero, uv(l)[1])
                  /\ RatLess(uv(l)[1], RatOne)
            /\ \A l, m \in DOMAIN me.loops :
                  /\ me.loops[l] < me.loops[m] => RatLess(uv(l)[1], uv(m)[1])
                  /\ me.loops[l] = me.loops[m] => uv(l) = uv(m)
            /\ \A i \in 0..(V - 1) :
                  /\ RatLess(RatZero, ExportUV(i, V)[1])
                  /\ RatLess(ExportUV(i, V)[1], RatOne)
                  /\ i > 0 => RatLess(ExportUV(i - 1, V)[1], ExportUV(i, V)[1])

\* the export mesh of Tri and Quad: 7 vertices, 9 loops, two loops on vertex 3
C10_Witness ==
    /\ pc = "extract"
    /\ export_mesh_data # 0
    /\ LET me == MeshById(data_meshes, export_mesh_data)
       IN  /\ Len(me.vertices) = 7
           /\ Len(me.loops) = 9
           /\ \E l, m \in DOMAIN me.loops : l # m /\ me.loops[l] = me.loops[m]
           /\ me.uv_layers[2].data[1] = << <<1, 14>>, RatZero >>

=============================================================================
